---------------------------- MODULE Spec2Model ----------------------------
(***************************************************************************)
(* A model of the repository merger of src/src/index.ts.                   *)
(*                                                                         *)
(* The file holds two versions of the tool: the unfiltered one (lines      *)
(* 1-207, files chosen by the built-in isTextFile list) and the filtered   *)
(* one (lines 209-402, files chosen by the includeExtensions allow-list,   *)
(* empty directories pruned from the tree).  Both are modelled; the state  *)
(* variable `variant' says which one a run executes.                       *)
(*                                                                         *)
(* Strings are sequences of one-character strings, so that extname,        *)
(* toLowerCase, localeCompare, split/slice/join and the URL regular        *)
(* expression are computed character by character.  The four box-drawing   *)
(* characters are written by their code points ("U+2514" is one            *)
(* character).  A path is the sequence of the names below the temporary    *)
(* clone directory; <<>> is the clone directory itself.                    *)
(*                                                                         *)
(* The two walks are async functions that await their recursive calls.     *)
(* An await hands control back to the event loop, so a walk is modelled    *)
(* as a sequence of steps, one from each suspension point to the next;     *)
(* the variable `walk' holds the calls that are suspended.                 *)
(***************************************************************************)
EXTENDS Integers, Sequences, FiniteSets, TLC

VARIABLES
    pc,                 \* position of the run inside mergeRepositoryFiles
    variant,            \* "unfiltered" (lines 92-164) or "filtered" (312-387)
    url,                \* githubUrl
    repoName,           \* getRepoNameFromUrl(githubUrl)
    includeExtensions,  \* options.includeExtensions (filtered variant)
    repo,               \* the remote repository: path -> "file" | "directory"
    fs,                 \* the content of tempDir after the clone
    listing,            \* the order in which the file system lists names
    tempExists,         \* fs.existsSync(tempDir)
    walk,               \* the calls of the walk under way, outermost first
    fileTree,           \* const fileTree
    rendered,           \* generateTreeString(fileTree, "", true)
    treeString,         \* const treeString
    mergedContent,      \* let mergedContent: the file sections appended so far
    outputFile,         \* what outputPath holds on disk
    writes,             \* number of completed fs.writeFileSync(outputPath, ..)
    progress,           \* the steps of the try block that completed
    thrown              \* an error is propagating to the caller

vars == <<pc, variant, url, repoName, includeExtensions, repo, fs, listing,
          tempExists, walk, fileTree, rendered, treeString, mergedContent,
          outputFile, writes, progress, thrown>>

---------------------------------------------------------------------------
(* Bounds of the model. *)

\* Most entries (files and directories) the cloned repository holds.
MaxEntries == 3

\* Longest URL, in characters, given to getRepoNameFromUrl.
MaxUrlLen == 6

---------------------------------------------------------------------------
(* Characters and strings. *)

NL == "\n"
SLASH == "/"
DOT == "."

\* The box-drawing characters of generateTreeString's markers.
CornerGlyph == "U+2514"
TeeGlyph == "U+251C"
DashGlyph == "U+2500"
BarGlyph == "U+2502"

\* String.prototype.toLowerCase on one character (ASCII letters).
LowerChar(c) ==
    CASE c = "A" -> "a" [] c = "B" -> "b" [] c = "C" -> "c" [] c = "D" -> "d"
      [] c = "E" -> "e" [] c = "F" -> "f" [] c = "G" -> "g" [] c = "H" -> "h"
      [] c = "I" -> "i" [] c = "J" -> "j" [] c = "K" -> "k" [] c = "L" -> "l"
      [] c = "M" -> "m" [] c = "N" -> "n" [] c = "O" -> "o" [] c = "P" -> "p"
      [] c = "Q" -> "q" [] c = "R" -> "r" [] c = "S" -> "s" [] c = "T" -> "t"
      [] c = "U" -> "u" [] c = "V" -> "v" [] c = "W" -> "w" [] c = "X" -> "x"
      [] c = "Y" -> "y" [] c = "Z" -> "z" [] OTHER -> c

toLowerCase(s) == [i \in 1..Len(s) |-> LowerChar(s[i])]

\* The elements of a sequence.
Range(s) == {s[i] : i \in 1..Len(s)}

\* Array.prototype.includes
Includes(arr, x) == \E i \in 1..Len(arr) : arr[i] = x

---------------------------------------------------------------------------
(* getRepoNameFromUrl: url.match(/\/([^\/]+?)(\.git)?$/).                   *)

DotGit == <<".", "g", "i", "t">>
Repository == <<"r", "e", "p", "o", "s", "i", "t", "o", "r", "y">>

\* The regular expression matches at position s with a first group of k
\* characters: a slash, k characters that are not slashes, then either
\* ".git" and the end of the input, or the end of the input.
MatchAt(u, s, k) ==
    /\ s \in 1..Len(u)
    /\ u[s] = SLASH
    /\ k >= 1
    /\ s + k <= Len(u)
    /\ \A j \in (s + 1)..(s + k) : u[j] # SLASH
    /\ \/ /\ s + k + 4 = Len(u)
          /\ SubSeq(u, s + k + 1, s + k + 4) = DotGit
       \/ s + k = Len(u)

\* A faulty variant of getRepoNameFromUrl: the first group is greedy ([^\/]+), so
\* the optional ".git" group never takes the suffix.
getRepoNameGreedy(u) ==
    LET starts == {s \in 1..Len(u) : \E k \in 1..Len(u) : MatchAt(u, s, k)}
    IN  IF starts = {} THEN Repository
        ELSE LET s == CHOOSE x \in starts : \A y \in starts : x <= y
                 ks == {k \in 1..Len(u) : MatchAt(u, s, k)}
                 k == CHOOSE x \in ks : \A y \in ks : x >= y
             IN  SubSeq(u, s + 1, s + k)

\* The match is the leftmost one, and the first group is lazy: it takes the
\* fewest characters that let the rest match.  match[1] on a match, the
\* literal "repository" on none.
getRepoNameFromUrl(u) ==
    LET starts == {s \in 1..Len(u) : \E k \in 1..Len(u) : MatchAt(u, s, k)}
    IN  IF starts = {} THEN Repository
        ELSE LET s == CHOOSE x \in starts : \A y \in starts : x <= y
                 ks == {k \in 1..Len(u) : MatchAt(u, s, k)}
                 k == CHOOSE x \in ks : \A y \in ks : x <= y
             IN  SubSeq(u, s + 1, s + k)

---------------------------------------------------------------------------
(* Names, path.extname, isTextFile, localeCompare.                          *)

\* The names the entries of the modelled repository are drawn from: two
\* directories that are walked (b, Dist) and one that is excluded (dist);
\* files with a lower-case and an upper-case extension, with a hyphen and
\* a digit, without extension, and one whose name holds a line break.
DirNames == {<<"b">>, <<"D", "i", "s", "t">>, <<"d", "i", "s", "t">>}
FileNames == {<<"a", ".", "m", "d">>, <<"B", ".", "M", "D">>,
              <<"a", "-", "1", ".", "l", "o", "g">>, <<".", "e", "n", "v">>,
              <<"z", "\n", "z">>}
Names == DirNames \cup FileNames

\* The names the whole runs of Spec draw from.
RunNames == Names \ {<<"b">>, <<"z", "\n", "z">>}

\* The order in which fs.readdirSync lists names: libuv's scandir sorts
\* them by code point.
ListingOrders ==
    { << <<".", "e", "n", "v">>, <<"B", ".", "M", "D">>,
         <<"D", "i", "s", "t">>, <<"a", "-", "1", ".", "l", "o", "g">>,
         <<"a", ".", "m", "d">>, <<"b">>, <<"d", "i", "s", "t">>,
         <<"z", "\n", "z">> >> }

\* excludeDirs = ["node_modules", ".git", "dist", "build"]
excludeDirs ==
    << <<"n", "o", "d", "e", "_", "m", "o", "d", "u", "l", "e", "s">>,
       <<".", "g", "i", "t">>,
       <<"d", "i", "s", "t">>,
       <<"b", "u", "i", "l", "d">> >>

\* excludeFiles = [".env", ".gitignore", "package-lock.json"]
excludeFiles ==
    << <<".", "e", "n", "v">>,
       <<".", "g", "i", "t", "i", "g", "n", "o", "r", "e">>,
       <<"p", "a", "c", "k", "a", "g", "e", "-", "l", "o", "c", "k", ".",
         "j", "s", "o", "n">> >>

\* The values of options.includeExtensions: left out, or an array.
Undefined == [defined |-> FALSE, list |-> <<>>]
Extensions(list) == [defined |-> TRUE, list |-> list]
IncludeChoices == {Undefined, Extensions(<< <<".", "M", "D">> >>)}

\* path.extname of a name without separators: from the last dot to the end;
\* empty when there is no dot, when the only dot starts the name, and for
\* the name "..".
extname(item) ==
    LET dots == {i \in 1..Len(item) : item[i] = DOT}
    IN  IF dots = {} THEN <<>>
        ELSE LET startDot == CHOOSE i \in dots : \A j \in dots : j <= i
             IN  IF startDot = 1 \/ item = <<DOT, DOT>> THEN <<>>
                 ELSE SubSeq(item, startDot, Len(item))

textExtensions ==
    << <<".", "t", "s">>, <<".", "j", "s">>, <<".", "j", "s", "x">>,
       <<".", "t", "s", "x">>, <<".", "h", "t", "m", "l">>,
       <<".", "c", "s", "s">>, <<".", "s", "c", "s", "s">>,
       <<".", "l", "e", "s", "s">>, <<".", "j", "s", "o", "n">>,
       <<".", "m", "d">>, <<".", "t", "x", "t">>, <<".", "y", "m", "l">>,
       <<".", "y", "a", "m", "l">>, <<".", "x", "m", "l">>,
       <<".", "c", "s", "v">>, <<".", "p", "y">>,
       <<".", "j", "a", "v", "a">>, <<".", "r", "b">>,
       <<".", "p", "h", "p">>, <<".", "c">>, <<".", "c", "p", "p">>,
       <<".", "h">>, <<".", "h", "p", "p">>, <<".", "s", "h">>,
       <<".", "r", "s">> >>

isTextFile(extension) == Includes(textExtensions, toLowerCase(extension))

\* The characters in the order of their primary collation weights (the
\* root collation the default locale uses): line break and white space,
\* punctuation,
\* symbols, the digits, the letters; a letter's two cases share a weight.
\* localeCompare is modelled for strings over these characters.
Collation ==
    <<"\n", " ", "_", "-", ",", ";", ":", "!", "?", ".", "'", "(", ")", "[", "]",
      "{", "}", "@", "*", "&", "#", "%", "^", "+", "<", "=", ">", "|", "~",
      "$", "0", "1", "2", "3", "4", "5", "6", "7", "8", "9",
      "a", "b", "c", "d", "e", "f", "g", "h", "i", "j", "k", "l", "m",
      "n", "o", "p", "q", "r", "s", "t", "u", "v", "w", "x", "y", "z">>

PrimaryWeight(c) ==
    CHOOSE i \in 1..Len(Collation) : Collation[i] = LowerChar(c)

\* 0 for a lower-case character, 1 for an upper-case one.
CaseWeight(c) == IF LowerChar(c) # c THEN 1 ELSE 0

\* Lexicographic comparison of two sequences of weights: -1, 0 or 1.
RECURSIVE CompareWeights(_, _)
CompareWeights(x, y) ==
    IF x = <<>> /\ y = <<>> THEN 0
    ELSE IF x = <<>> THEN -1
    ELSE IF y = <<>> THEN 1
    ELSE IF Head(x) < Head(y) THEN -1
    ELSE IF Head(x) > Head(y) THEN 1
    ELSE CompareWeights(Tail(x), Tail(y))

\* String.prototype.localeCompare in the default locale: the letters decide
\* first, whatever their case; between strings that differ in case only,
\* lower case comes first.
localeCompare(a, b) ==
    LET primary == CompareWeights([i \in 1..Len(a) |-> PrimaryWeight(a[i])],
                                  [i \in 1..Len(b) |-> PrimaryWeight(b[i])])
    IN  IF primary # 0 THEN primary
        ELSE CompareWeights([i \in 1..Len(a) |-> CaseWeight(a[i])],
                            [i \in 1..Len(b) |-> CaseWeight(b[i])])

---------------------------------------------------------------------------
(* The file system below tempDir.                                           *)

\* path.join(directory, item)
Join2(directory, item) == Append(directory, item)

\* fs.statSync(path).isDirectory()
isDirectory(path) == fs[path] = "directory"

\* fs.readdirSync(directory): the names in the directory, in the order the
\* file system lists them.
readdirSync(directory) ==
    SelectSeq(listing, LAMBDA n : Join2(directory, n) \in DOMAIN fs)

\* fs.readFileSync(path, "utf8"): the text of the file, one value per file.
readFileSync(path) == <<"text of", path>>

\* A call of the fs module that throws: op on path.  NoFault: none does.
\* The walks call readdirSync on tempDir and on directories, statSync on
\* the entries, readFileSync on files.
NoFault == [op |-> "none", path |-> <<>>]
Faults(files, ops) ==
    {NoFault} \cup
    {f \in [op : ops, path : {<<>>} \cup DOMAIN files] :
        CASE f.op = "readdir" ->
                 f.path = <<>> \/ files[f.path] = "directory"
          [] f.op = "stat" -> f.path # <<>>
          [] f.op = "read" -> f.path # <<>> /\ files[f.path] = "file"}

---------------------------------------------------------------------------
(* buildFileTree.                                                           *)

\* The comparator given to items.sort.
compareItems(directory, a, b) ==
    LET aIsDir == isDirectory(Join2(directory, a))
        bIsDir == isDirectory(Join2(directory, b))
    IN  IF aIsDir /\ ~bIsDir THEN -1
        ELSE IF ~aIsDir /\ bIsDir THEN 1
        ELSE localeCompare(a, b)

\* Array.prototype.sort with that comparator: a stable sort, here by
\* insertion.
RECURSIVE InsertItem(_, _, _)
InsertItem(directory, sorted, x) ==
    IF sorted = <<>> THEN <<x>>
    ELSE IF compareItems(directory, Head(sorted), x) <= 0
         THEN <<Head(sorted)>> \o InsertItem(directory, Tail(sorted), x)
         ELSE <<x>> \o sorted

RECURSIVE SortFrom(_, _, _)
SortFrom(directory, items, sorted) ==
    IF items = <<>> THEN sorted
    ELSE SortFrom(directory, Tail(items),
                  InsertItem(directory, sorted, Head(items)))

\* A faulty variant of sortItems: the sort is left out.
sortItemsNone(directory, items) == items

\* const sortedItems = items.sort(...)
sortItems(directory, items) == SortFrom(directory, items, <<>>)

FileNode(item) == [name |-> item, type |-> "file"]
DirectoryNode(nm, children) ==
    [name |-> nm, type |-> "directory", children |-> children]

\* if (structure.children)
HasChildren(structure) == "children" \in DOMAIN structure

\* A faulty variant of recursesInto: the exclusion list is consulted at the top
\* level only (excludeDirs.includes(fullPath) in place of includes(item) has
\* this effect: below the top the full path never equals a bare name).
recursesIntoTopOnly(directory, item, excl) ==
    ~(directory = <<>> /\ Includes(excl, item))

\* if (!excludeDirs.includes(item)): the test both walks of both versions
\* make on the bare name of a subdirectory before recursing into it.
recursesInto(directory, item, excl) == ~Includes(excl, item)

\* A faulty variant of extensionIncluded: the file's extension is compared as it is
\* (path.extname(item) without .toLowerCase()).
extensionIncludedAsIs(item, incl) ==
    LET ext == extname(item)
    IN  \/ ~incl.defined
        \/ Includes([i \in 1..Len(incl.list) |-> toLowerCase(incl.list[i])],
                    ext)

\* The test of lines 297-300 and 360-363: no allow-list, or the lower-cased
\* extension is among the lower-cased entries of the allow-list.
extensionIncluded(item, incl) ==
    LET ext == toLowerCase(extname(item))
    IN  \/ ~incl.defined
        \/ Includes([i \in 1..Len(incl.list) |-> toLowerCase(incl.list[i])],
                    ext)

\* A faulty variant of keepsChildTree: a recursed directory is pushed whether or
\* not it has children after filtering.
keepsChildTreeAlways(childTree) == TRUE

\* if (childTree.children && childTree.children.length > 0)
keepsChildTree(childTree) ==
    HasChildren(childTree) /\ Len(childTree.children) > 0

\* The calls of an async walk that have not been taken up by their caller,
\* outermost first.  Every `await' hands control back to the event loop, so
\* a walk runs in steps: a step ends when a call returns or throws, and the
\* next step resumes the caller that awaits it.  A frame of buildFileTree
\* holds the directory, the name of its node, the sorted items not yet
\* visited, the children pushed so far, and its state: "running",
\* "awaiting" the call above it, "fulfilled" (returned) or "rejected"
\* (threw).
BuildFrame(directory, nm, items, children, state) ==
    [directory |-> directory, name |-> nm, items |-> items,
     children |-> children, state |-> state]

\* The innermost call, and the calls that wait for it.
Top(stack) == stack[Len(stack)]
Callers(stack) == SubSeq(stack, 1, Len(stack) - 1)

\* The unfiltered version (lines 51-90).  Each operator runs the code from
\* one suspension point to the next: it takes the stack of calls and gives
\* the stack at the moment the innermost call has settled.  The call of the
\* fs module named by `fault' throws.
RECURSIVE buildFileTreeUnfiltered(_, _, _, _, _)
RECURSIVE buildLoopUnfiltered(_, _, _)

\* for (const item of sortedItems) { ... } in the innermost call, up to its
\* return, its throw, or the settling of a call it makes.
buildLoopUnfiltered(excl, fault, stack) ==
    LET frame == Top(stack)
        callers == Callers(stack)
    IN  IF frame.items = <<>>
        THEN Append(callers, [frame EXCEPT !.state = "fulfilled"])
        ELSE
          LET item == Head(frame.items)
              fullPath == Join2(frame.directory, item)
              rest == [frame EXCEPT !.items = Tail(frame.items)]
          IN  IF fault = [op |-> "stat", path |-> fullPath]
              THEN Append(callers, [frame EXCEPT !.state = "rejected"])
              ELSE IF isDirectory(fullPath)
              THEN IF recursesInto(frame.directory, item, excl)
                   THEN buildFileTreeUnfiltered(fullPath, excl, item, fault,
                            Append(callers,
                                   [rest EXCEPT !.state = "awaiting"]))
                   ELSE buildLoopUnfiltered(excl, fault,
                                            Append(callers, rest))
              ELSE buildLoopUnfiltered(excl, fault,
                       Append(callers,
                              [rest EXCEPT
                                 !.children = Append(@, FileNode(item))]))

\* The call buildFileTree(directory, excludeDirs, repoName) made with the
\* calls of `stack' waiting.
buildFileTreeUnfiltered(directory, excl, nm, fault, stack) ==
    IF fault = [op |-> "readdir", path |-> directory]
    THEN Append(stack, BuildFrame(directory, nm, <<>>, <<>>, "rejected"))
    ELSE
      LET items == readdirSync(directory)
      IN  \* the comparator stats the entries it compares
          IF /\ Len(items) >= 2
             /\ \E i \in 1..Len(items) :
                   fault = [op |-> "stat", path |-> Join2(directory, items[i])]
          THEN Append(stack, BuildFrame(directory, nm, <<>>, <<>>, "rejected"))
          ELSE buildLoopUnfiltered(excl, fault,
                   Append(stack,
                          BuildFrame(directory, nm,
                                     sortItems(directory, items), <<>>,
                                     "running")))

\* The caller of the settled innermost call resumes at its await (line 78):
\* a throw passes through it; a returned childTree is pushed and the loop
\* goes on.
buildResumeUnfiltered(excl, fault, stack) ==
    LET child == Top(stack)
        caller == Top(Callers(stack))
        outer == Callers(Callers(stack))
    IN  IF child.state = "rejected"
        THEN Append(outer, [caller EXCEPT !.state = "rejected"])
        ELSE
          LET childTree == DirectoryNode(child.name, child.children)
          IN  buildLoopUnfiltered(excl, fault,
                  Append(outer,
                         [caller EXCEPT !.children = Append(@, childTree),
                                        !.state = "running"]))

\* The filtered version (lines 256-310).
RECURSIVE buildFileTree(_, _, _, _, _, _)
RECURSIVE buildLoop(_, _, _, _)

buildLoop(excl, incl, fault, stack) ==
    LET frame == Top(stack)
        callers == Callers(stack)
    IN  IF frame.items = <<>>
        THEN Append(callers, [frame EXCEPT !.state = "fulfilled"])
        ELSE
          LET item == Head(frame.items)
              fullPath == Join2(frame.directory, item)
              rest == [frame EXCEPT !.items = Tail(frame.items)]
          IN  IF fault = [op |-> "stat", path |-> fullPath]
              THEN Append(callers, [frame EXCEPT !.state = "rejected"])
              ELSE IF isDirectory(fullPath)
              THEN IF recursesInto(frame.directory, item, excl)
                   THEN buildFileTree(fullPath, excl, item, incl, fault,
                            Append(callers,
                                   [rest EXCEPT !.state = "awaiting"]))
                   ELSE buildLoop(excl, incl, fault, Append(callers, rest))
              ELSE IF extensionIncluded(item, incl)
                   THEN buildLoop(excl, incl, fault,
                            Append(callers,
                                   [rest EXCEPT
                                      !.children = Append(@, FileNode(item))]))
                   ELSE buildLoop(excl, incl, fault, Append(callers, rest))

buildFileTree(directory, excl, nm, incl, fault, stack) ==
    IF fault = [op |-> "readdir", path |-> directory]
    THEN Append(stack, BuildFrame(directory, nm, <<>>, <<>>, "rejected"))
    ELSE
      LET items == readdirSync(directory)
      IN  IF /\ Len(items) >= 2
             /\ \E i \in 1..Len(items) :
                   fault = [op |-> "stat", path |-> Join2(directory, items[i])]
          THEN Append(stack, BuildFrame(directory, nm, <<>>, <<>>, "rejected"))
          ELSE buildLoop(excl, incl, fault,
                   Append(stack,
                          BuildFrame(directory, nm,
                                     sortItems(directory, items), <<>>,
                                     "running")))

\* The caller resumes at its await (lines 283-288): a returned childTree
\* is pushed if it has children, and the loop goes on.
buildResume(excl, incl, fault, stack) ==
    LET child == Top(stack)
        caller == Top(Callers(stack))
        outer == Callers(Callers(stack))
    IN  IF child.state = "rejected"
        THEN Append(outer, [caller EXCEPT !.state = "rejected"])
        ELSE
          LET childTree == DirectoryNode(child.name, child.children)
              children == IF keepsChildTree(childTree)
                          THEN Append(caller.children, childTree)
                          ELSE caller.children
          IN  buildLoop(excl, incl, fault,
                  Append(outer, [caller EXCEPT !.children = children,
                                               !.state = "running"]))

---------------------------------------------------------------------------
(* generateTreeString, and the splicing of its output into treeString.      *)

RECURSIVE generateTreeString(_, _, _)
RECURSIVE renderChildren(_, _, _)

\* structure.children.forEach(...): the lines of the children from the
\* i-th on, the last child rendered with isLast = true.
renderChildren(children, i, childPrefix) ==
    IF i > Len(children) THEN <<>>
    ELSE generateTreeString(children[i], childPrefix, i = Len(children))
         \o renderChildren(children, i + 1, childPrefix)

\* A faulty variant of generateTreeString: the prefix of the children of a last
\* sibling grows by two characters.
generateTreeStringNarrow(structure, prefix, isLast) ==
    LET marker == IF isLast THEN <<CornerGlyph, DashGlyph, " ">>
                            ELSE <<TeeGlyph, DashGlyph, " ">>
        tree == prefix \o marker \o structure.name \o <<NL>>
    IN  IF HasChildren(structure)
        THEN LET childPrefix ==
                     prefix \o (IF isLast THEN <<" ", " ">>
                                          ELSE <<BarGlyph, " ", " ">>)
             IN  tree \o renderChildren(structure.children, 1, childPrefix)
        ELSE tree

generateTreeString(structure, prefix, isLast) ==
    LET marker == IF isLast THEN <<CornerGlyph, DashGlyph, " ">>
                            ELSE <<TeeGlyph, DashGlyph, " ">>
        tree == prefix \o marker \o structure.name \o <<NL>>
    IN  IF HasChildren(structure)
        THEN LET childPrefix ==
                     prefix \o (IF isLast THEN <<" ", " ", " ">>
                                          ELSE <<BarGlyph, " ", " ">>)
             IN  tree \o renderChildren(structure.children, 1, childPrefix)
        ELSE tree

\* String.prototype.split(sep) for a one-character separator.
RECURSIVE SplitFrom(_, _, _)
SplitFrom(s, sep, piece) ==
    IF s = <<>> THEN <<piece>>
    ELSE IF Head(s) = sep THEN <<piece>> \o SplitFrom(Tail(s), sep, <<>>)
    ELSE SplitFrom(Tail(s), sep, Append(piece, Head(s)))

Split(s, sep) == SplitFrom(s, sep, <<>>)

\* Array.prototype.slice(start)
Slice(arr, start) == SubSeq(arr, start + 1, Len(arr))

\* Array.prototype.join(sep)
RECURSIVE JoinWith(_, _)
JoinWith(arr, sep) ==
    IF arr = <<>> THEN <<>>
    ELSE IF Len(arr) = 1 THEN arr[1]
    ELSE arr[1] \o <<sep>> \o JoinWith(Tail(arr), sep)

\* repoName + "/\n" + generateTreeString(...).split("\n").slice(2).join("\n")
makeTreeString(nm, renderedTree) ==
    nm \o <<SLASH, NL>> \o JoinWith(Slice(Split(renderedTree, NL), 2), NL)

---------------------------------------------------------------------------
(* processDirectory.                                                        *)

\* const tempDir = `temp-${Date.now()}`, for one value of the clock.
tempDir == <<"t", "e", "m", "p", "-", "1">>

\* The string path.join makes of a path below tempDir.
PathString(path) == tempDir \o <<SLASH>> \o JoinWith(path, SLASH)

\* The backquote, written by its code point.
Backquote == "U+0060"

\* String.prototype.indexOf: where the pattern first occurs in the string,
\* counted from 1; 0 when it does not occur.
IndexOf(str, pattern) ==
    LET hits == {i \in 1..(Len(str) - Len(pattern) + 1) :
                    SubSeq(str, i, i + Len(pattern) - 1) = pattern}
    IN  IF hits = {} THEN 0
        ELSE CHOOSE i \in hits : \A j \in hits : i <= j

\* What String.prototype.replace makes of the replacement text when the
\* pattern is a string: $$ is a dollar sign, $& the matched text, $` the
\* text before the match, $' the text after it; without capture groups
\* every other character, a lone dollar sign included, stands for itself.
RECURSIVE GetSubstitution(_, _, _, _)
GetSubstitution(matched, before, after, replacement) ==
    IF replacement = <<>> THEN <<>>
    ELSE IF Head(replacement) = "$" /\ Len(replacement) >= 2
    THEN LET c == replacement[2]
             rest == SubSeq(replacement, 3, Len(replacement))
         IN  IF c = "$"
             THEN <<"$">> \o GetSubstitution(matched, before, after, rest)
             ELSE IF c = "&"
             THEN matched \o GetSubstitution(matched, before, after, rest)
             ELSE IF c = Backquote
             THEN before \o GetSubstitution(matched, before, after, rest)
             ELSE IF c = "'"
             THEN after \o GetSubstitution(matched, before, after, rest)
             ELSE <<"$">> \o GetSubstitution(matched, before, after,
                                             Tail(replacement))
    ELSE <<Head(replacement)>>
         \o GetSubstitution(matched, before, after, Tail(replacement))

\* str.replace(pattern, replacement) for a string pattern: the first
\* occurrence is replaced.
replace(str, pattern, replacement) ==
    LET i == IndexOf(str, pattern)
        before == SubSeq(str, 1, i - 1)
        after == SubSeq(str, i + Len(pattern), Len(str))
    IN  IF i = 0 THEN str
        ELSE before \o GetSubstitution(pattern, before, after, replacement)
                    \o after

\* What one file adds to mergedContent: the text of the "// File:" line,
\* fullPath.replace(tempDir + "/", repoName + "/"), then the content.
Section(nm, fullPath, content) ==
    [header |-> replace(PathString(fullPath), tempDir \o <<SLASH>>,
                        nm \o <<SLASH>>),
     content |-> content]

\* The unfiltered version's test of a file (lines 139-140).
qualifiesUnfiltered(item, exclFiles) ==
    LET ext == extname(item)
    IN  ~Includes(exclFiles, item) /\ isTextFile(ext)

\* The filtered version's test of a file (lines 359-364).
qualifies(item, exclFiles, incl) ==
    ~Includes(exclFiles, item) /\ extensionIncluded(item, incl)

\* A frame of processDirectory: the directory, the items not yet visited
\* and the state of the call.
ProcessFrame(directory, items, state) ==
    [directory |-> directory, items |-> items, state |-> state]

\* The result of a step of the walk: the stack of calls and mergedContent's
\* sections; what was appended before a throw stays in the buffer.
Walked(stack, out) == [stack |-> stack, out |-> out]

RECURSIVE processDirectoryUnfiltered(_, _, _, _, _, _, _)
RECURSIVE processLoopUnfiltered(_, _, _, _, _, _)

\* The unfiltered version (lines 127-150): the loop of the innermost call,
\* up to its return, its throw, or the settling of a call it makes.
processLoopUnfiltered(excl, exclFiles, nm, fault, stack, out) ==
    LET frame == Top(stack)
        callers == Callers(stack)
    IN  IF frame.items = <<>>
        THEN Walked(Append(callers, [frame EXCEPT !.state = "fulfilled"]),
                    out)
        ELSE
          LET item == Head(frame.items)
              fullPath == Join2(frame.directory, item)
              rest == [frame EXCEPT !.items = Tail(frame.items)]
              throws == Walked(Append(callers,
                                      [frame EXCEPT !.state = "rejected"]),
                               out)
          IN  IF fault = [op |-> "stat", path |-> fullPath] THEN throws
              ELSE IF isDirectory(fullPath)
              THEN IF recursesInto(frame.directory, item, excl)
                   THEN processDirectoryUnfiltered(fullPath, excl, exclFiles,
                            nm, fault,
                            Append(callers,
                                   [rest EXCEPT !.state = "awaiting"]),
                            out)
                   ELSE processLoopUnfiltered(excl, exclFiles, nm, fault,
                                              Append(callers, rest), out)
              ELSE IF qualifiesUnfiltered(item, exclFiles)
                   THEN IF fault = [op |-> "read", path |-> fullPath]
                        THEN throws
                        ELSE processLoopUnfiltered(excl, exclFiles, nm, fault,
                                 Append(callers, rest),
                                 Append(out, Section(nm, fullPath,
                                                     readFileSync(fullPath))))
                   ELSE processLoopUnfiltered(excl, exclFiles, nm, fault,
                                              Append(callers, rest), out)

processDirectoryUnfiltered(directory, excl, exclFiles, nm, fault, stack, out) ==
    IF fault = [op |-> "readdir", path |-> directory]
    THEN Walked(Append(stack, ProcessFrame(directory, <<>>, "rejected")), out)
    ELSE processLoopUnfiltered(excl, exclFiles, nm, fault,
             Append(stack, ProcessFrame(directory, readdirSync(directory),
                                        "running")),
             out)

\* The caller resumes at its await (line 136) and goes on with its loop.
processResumeUnfiltered(excl, exclFiles, nm, fault, stack, out) ==
    LET child == Top(stack)
        caller == Top(Callers(stack))
        outer == Callers(Callers(stack))
    IN  IF child.state = "rejected"
        THEN Walked(Append(outer, [caller EXCEPT !.state = "rejected"]), out)
        ELSE processLoopUnfiltered(excl, exclFiles, nm, fault,
                 Append(outer, [caller EXCEPT !.state = "running"]), out)

RECURSIVE processDirectory(_, _, _, _, _, _, _, _)
RECURSIVE processLoop(_, _, _, _, _, _, _)

\* The filtered version (lines 347-374).
processLoop(excl, exclFiles, incl, nm, fault, stack, out) ==
    LET frame == Top(stack)
        callers == Callers(stack)
    IN  IF frame.items = <<>>
        THEN Walked(Append(callers, [frame EXCEPT !.state = "fulfilled"]),
                    out)
        ELSE
          LET item == Head(frame.items)
              fullPath == Join2(frame.directory, item)
              rest == [frame EXCEPT !.items = Tail(frame.items)]
              throws == Walked(Append(callers,
                                      [frame EXCEPT !.state = "rejected"]),
                               out)
          IN  IF fault = [op |-> "stat", path |-> fullPath] THEN throws
              ELSE IF isDirectory(fullPath)
              THEN IF recursesInto(frame.directory, item, excl)
                   THEN processDirectory(fullPath, excl, exclFiles, incl, nm,
                            fault,
                            Append(callers,
                                   [rest EXCEPT !.state = "awaiting"]),
                            out)
                   ELSE processLoop(excl, exclFiles, incl, nm, fault,
                                    Append(callers, rest), out)
              ELSE IF qualifies(item, exclFiles, incl)
                   THEN IF fault = [op |-> "read", path |-> fullPath]
                        THEN throws
                        ELSE processLoop(excl, exclFiles, incl, nm, fault,
                                 Append(callers, rest),
                                 Append(out, Section(nm, fullPath,
                                                     readFileSync(fullPath))))
                   ELSE processLoop(excl, exclFiles, incl, nm, fault,
                                    Append(callers, rest), out)

processDirectory(directory, excl, exclFiles, incl, nm, fault, stack, out) ==
    IF fault = [op |-> "readdir", path |-> directory]
    THEN Walked(Append(stack, ProcessFrame(directory, <<>>, "rejected")), out)
    ELSE processLoop(excl, exclFiles, incl, nm, fault,
             Append(stack, ProcessFrame(directory, readdirSync(directory),
                                        "running")),
             out)

\* The caller resumes at its await (line 356) and goes on with its loop.
processResume(excl, exclFiles, incl, nm, fault, stack, out) ==
    LET child == Top(stack)
        caller == Top(Callers(stack))
        outer == Callers(Callers(stack))
    IN  IF child.state = "rejected"
        THEN Walked(Append(outer, [caller EXCEPT !.state = "rejected"]), out)
        ELSE processLoop(excl, exclFiles, incl, nm, fault,
                 Append(outer, [caller EXCEPT !.state = "running"]), out)

---------------------------------------------------------------------------
(* The run of mergeRepositoryFiles.                                         *)

EmptyDir == [p \in {} |-> "file"]
NoTree == [name |-> <<>>, type |-> "none"]
NoContent == [tree |-> <<>>, sections |-> <<>>]
Absent == [state |-> "absent", content |-> NoContent]

\* The URLs the modelled runs are given: h/r.git, and h/$'r', whose name
\* holds a replacement pattern of String.prototype.replace.
RunUrls == { <<"h", "/", "r", ".", "g", "i", "t">>,
             <<"h", "/", "$", "'", "r", "'">> }

\* The type an entry of the given name has in the modelled repository.
TypeOf(nm) == IF nm \in DirNames THEN "directory" ELSE "file"

Init ==
    /\ pc = "idle"
    /\ variant = "none"
    /\ url = <<>>
    /\ repoName = <<>>
    /\ includeExtensions = Undefined
    /\ repo = EmptyDir
    /\ fs = EmptyDir
    /\ listing = <<>>
    /\ tempExists = FALSE
    /\ walk = <<>>
    /\ fileTree = NoTree
    /\ rendered = <<>>
    /\ treeString = <<>>
    /\ mergedContent = NoContent
    /\ outputFile = Absent
    /\ writes = 0
    /\ progress = {}
    /\ thrown = FALSE

\* The environment: before the run, the remote repository gets one more
\* file or directory, at the top or inside one of its directories.
AddEntry(parent, nm) ==
    /\ pc = "idle"
    /\ Cardinality(DOMAIN repo) < MaxEntries
    /\ \/ parent = <<>>
       \/ parent \in DOMAIN repo /\ repo[parent] = "directory"
    /\ Append(parent, nm) \notin DOMAIN repo
    /\ repo' = [p \in DOMAIN repo \cup {Append(parent, nm)} |->
                  IF p \in DOMAIN repo THEN repo[p] ELSE TypeOf(nm)]
    /\ UNCHANGED <<pc, variant, url, repoName, includeExtensions, fs, listing,
                   tempExists, walk, fileTree, rendered, treeString,
                   mergedContent, outputFile, writes, progress, thrown>>

\* mergeRepositoryFiles is called (lines 92-103 and 312-324): the options
\* are read and the repository name is derived from the URL.
Start(v, u, incl) ==
    /\ pc = "idle"
    /\ v = "unfiltered" => incl = Undefined
    /\ pc' = "clone"
    /\ variant' = v
    /\ url' = u
    /\ includeExtensions' = incl
    /\ repoName' = getRepoNameFromUrl(u)
    /\ UNCHANGED <<repo, fs, listing, tempExists, walk, fileTree, rendered,
                   treeString, mergedContent, outputFile, writes, progress,
                   thrown>>

\* await execAsync(`git clone ...`) resolves: tempDir holds the repository.
CloneOk(order) ==
    /\ pc = "clone"
    /\ pc' = "build"
    /\ fs' = repo
    /\ listing' = order
    /\ tempExists' = TRUE
    /\ progress' = progress \cup {"clone"}
    /\ UNCHANGED <<variant, url, repoName, includeExtensions, repo, walk,
                   fileTree, rendered, treeString, mergedContent, outputFile,
                   writes, thrown>>

\* The clone rejects; git may or may not have left tempDir behind.
CloneFail(left) ==
    /\ pc = "clone"
    /\ pc' = "finally"
    /\ thrown' = TRUE
    /\ tempExists' = left
    /\ UNCHANGED <<variant, url, repoName, includeExtensions, repo, fs,
                   listing, walk, fileTree, rendered, treeString,
                   mergedContent, outputFile, writes, progress>>

\* buildFileTree(tempDir, excludeDirs, repoName, ..) is called (lines 111
\* and 330-335) and runs until a call of the walk has settled.
BuildCall(fault) ==
    /\ pc = "build"
    /\ walk = <<>>
    /\ walk' = IF variant = "unfiltered"
               THEN buildFileTreeUnfiltered(<<>>, excludeDirs, repoName,
                                            fault, <<>>)
               ELSE buildFileTree(<<>>, excludeDirs, repoName,
                                  includeExtensions, fault, <<>>)
    /\ UNCHANGED <<pc, variant, url, repoName, includeExtensions, repo, fs,
                   listing, tempExists, fileTree, rendered, treeString,
                   mergedContent, outputFile, writes, progress, thrown>>

\* The event loop resumes the call of buildFileTree that awaits the settled
\* one (lines 78 and 283-288); it runs until the next call has settled.
BuildResume(fault) ==
    /\ pc = "build"
    /\ Len(walk) >= 2
    /\ walk' = IF variant = "unfiltered"
               THEN buildResumeUnfiltered(excludeDirs, fault, walk)
               ELSE buildResume(excludeDirs, includeExtensions, fault, walk)
    /\ UNCHANGED <<pc, variant, url, repoName, includeExtensions, repo, fs,
                   listing, tempExists, fileTree, rendered, treeString,
                   mergedContent, outputFile, writes, progress, thrown>>

\* const fileTree = await buildFileTree(tempDir, ..): the outermost call
\* has settled and mergeRepositoryFiles resumes with its structure, or with
\* its error.
BuildReturn ==
    /\ pc = "build"
    /\ Len(walk) = 1
    /\ walk' = <<>>
    /\ IF Top(walk).state = "fulfilled"
       THEN /\ fileTree' = DirectoryNode(Top(walk).name, Top(walk).children)
            /\ pc' = "render"
            /\ progress' = progress \cup {"tree"}
            /\ thrown' = thrown
       ELSE /\ fileTree' = fileTree
            /\ pc' = "finally"
            /\ progress' = progress
            /\ thrown' = TRUE
    /\ UNCHANGED <<variant, url, repoName, includeExtensions, repo, fs,
                   listing, tempExists, rendered, treeString, mergedContent,
                   outputFile, writes>>

\* const treeString = ...; let mergedContent = header + "/*\n" + treeString
\* + "*/\n\n" (lines 112-124 and 336-345).
RenderTree ==
    /\ pc = "render"
    /\ pc' = "merge"
    /\ rendered' = generateTreeString(fileTree, <<>>, TRUE)
    /\ treeString' = makeTreeString(repoName, rendered')
    /\ mergedContent' = [tree |-> treeString', sections |-> <<>>]
    /\ UNCHANGED <<variant, url, repoName, includeExtensions, repo, fs,
                   listing, tempExists, walk, fileTree, outputFile, writes,
                   progress, thrown>>

\* processDirectory(tempDir) is called (lines 152 and 376) and runs until a
\* call of the walk has settled.
MergeCall(fault) ==
    /\ pc = "merge"
    /\ walk = <<>>
    /\ LET walked == IF variant = "unfiltered"
                     THEN processDirectoryUnfiltered(<<>>, excludeDirs,
                              excludeFiles, repoName, fault, <<>>,
                              mergedContent.sections)
                     ELSE processDirectory(<<>>, excludeDirs, excludeFiles,
                              includeExtensions, repoName, fault, <<>>,
                              mergedContent.sections)
       IN  /\ walk' = walked.stack
           /\ mergedContent' = [mergedContent EXCEPT !.sections = walked.out]
    /\ UNCHANGED <<pc, variant, url, repoName, includeExtensions, repo, fs,
                   listing, tempExists, fileTree, rendered, treeString,
                   outputFile, writes, progress, thrown>>

\* The event loop resumes the call of processDirectory that awaits the
\* settled one (lines 136 and 356); it runs until the next call has settled.
MergeResume(fault) ==
    /\ pc = "merge"
    /\ Len(walk) >= 2
    /\ LET walked == IF variant = "unfiltered"
                     THEN processResumeUnfiltered(excludeDirs, excludeFiles,
                              repoName, fault, walk, mergedContent.sections)
                     ELSE processResume(excludeDirs, excludeFiles,
                              includeExtensions, repoName, fault, walk,
                              mergedContent.sections)
       IN  /\ walk' = walked.stack
           /\ mergedContent' = [mergedContent EXCEPT !.sections = walked.out]
    /\ UNCHANGED <<pc, variant, url, repoName, includeExtensions, repo, fs,
                   listing, tempExists, fileTree, rendered, treeString,
                   outputFile, writes, progress, thrown>>

\* await processDirectory(tempDir): the outermost call has settled and
\* mergeRepositoryFiles resumes, or takes its error.
MergeReturn ==
    /\ pc = "merge"
    /\ Len(walk) = 1
    /\ walk' = <<>>
    /\ IF Top(walk).state = "fulfilled"
       THEN /\ pc' = "write"
            /\ progress' = progress \cup {"merge"}
            /\ thrown' = thrown
       ELSE /\ pc' = "finally"
            /\ progress' = progress
            /\ thrown' = TRUE
    /\ UNCHANGED <<variant, url, repoName, includeExtensions, repo, fs,
                   listing, tempExists, fileTree, rendered, treeString,
                   mergedContent, outputFile, writes>>

\* A faulty variant of WriteOk: the buffer is also flushed when the walk failed.
WriteOkAlways ==
    /\ \/ pc = "write"
       \/ pc = "finally" /\ thrown /\ "tree" \in progress
                         /\ outputFile.state = "absent"
    /\ pc' = "finally"
    /\ outputFile' = [state |-> "written", content |-> mergedContent]
    /\ writes' = writes + 1
    /\ progress' = progress \cup {"write"}
    /\ UNCHANGED <<variant, url, repoName, includeExtensions, repo, fs,
                   listing, tempExists, walk, fileTree, rendered, treeString,
                   mergedContent, thrown>>

\* fs.writeFileSync(outputPath, mergedContent) returns.
WriteOk ==
    /\ pc = "write"
    /\ pc' = "finally"
    /\ outputFile' = [state |-> "written", content |-> mergedContent]
    /\ writes' = writes + 1
    /\ progress' = progress \cup {"write"}
    /\ UNCHANGED <<variant, url, repoName, includeExtensions, repo, fs,
                   listing, tempExists, walk, fileTree, rendered, treeString,
                   mergedContent, thrown>>

\* fs.writeFileSync throws: the file was not opened, or was opened (and so
\* truncated) and not written in full.
WriteFail(opened) ==
    /\ pc = "write"
    /\ pc' = "finally"
    /\ thrown' = TRUE
    /\ outputFile' = IF opened
                     THEN [state |-> "truncated", content |-> NoContent]
                     ELSE outputFile
    /\ UNCHANGED <<variant, url, repoName, includeExtensions, repo, fs,
                   listing, tempExists, walk, fileTree, rendered, treeString,
                   mergedContent, writes, progress>>

\* finally { if (fs.existsSync(tempDir)) fs.rmSync(tempDir, {recursive:
\* true, force: true}) } with rmSync returning, after which the promise
\* settles.
Cleanup ==
    /\ pc = "finally"
    /\ pc' = "done"
    /\ IF tempExists
       THEN tempExists' = FALSE /\ fs' = EmptyDir
       ELSE tempExists' = tempExists /\ fs' = fs
    /\ UNCHANGED <<variant, url, repoName, includeExtensions, repo, listing,
                   walk, fileTree, rendered, treeString, mergedContent,
                   outputFile, writes, progress, thrown>>

\* The entries a removal that stops part of the way may leave: with each
\* entry left, the directories above it.
Remainders(files) ==
    {S \in SUBSET DOMAIN files :
        \A p \in S : \A i \in 1..(Len(p) - 1) : SubSeq(p, 1, i) \in S}

\* The same finally block with fs.rmSync throwing (force: true only covers
\* a path that does not exist): tempDir stays, with the entries in `left',
\* and the error of rmSync is what the promise rejects with.
CleanupFail(left) ==
    /\ pc = "finally"
    /\ tempExists
    /\ pc' = "done"
    /\ fs' = [p \in left |-> fs[p]]
    /\ thrown' = TRUE
    /\ UNCHANGED <<variant, url, repoName, includeExtensions, repo, listing,
                   tempExists, walk, fileTree, rendered, treeString,
                   mergedContent, outputFile, writes, progress>>

Next ==
    \/ \E parent \in {<<>>} \cup DOMAIN repo, nm \in RunNames :
          AddEntry(parent, nm)
    \/ \E v \in {"unfiltered", "filtered"}, u \in RunUrls,
          incl \in IncludeChoices : Start(v, u, incl)
    \/ \E order \in ListingOrders : CloneOk(order)
    \/ \E left \in BOOLEAN : CloneFail(left)
    \/ \E fault \in Faults(fs, {"readdir", "stat"}) : BuildCall(fault)
    \/ \E fault \in Faults(fs, {"readdir", "stat"}) : BuildResume(fault)
    \/ BuildReturn
    \/ RenderTree
    \/ \E fault \in Faults(fs, {"readdir", "stat", "read"}) :
          MergeCall(fault)
    \/ \E fault \in Faults(fs, {"readdir", "stat", "read"}) :
          MergeResume(fault)
    \/ MergeReturn
    \/ WriteOk
    \/ \E opened \in BOOLEAN : WriteFail(opened)
    \/ Cleanup
    \/ \E left \in Remainders(fs) : CleanupFail(left)

Spec == Init /\ [][Next]_vars

---------------------------------------------------------------------------
(* buildFileTree and generateTreeString on their own: the run up to the    *)
(* rendered tree, on repositories whose entries are drawn from all Names.  *)

NextTree ==
    \/ \E parent \in {<<>>} \cup DOMAIN repo, nm \in Names :
          AddEntry(parent, nm)
    \/ \E v \in {"unfiltered", "filtered"}, u \in RunUrls,
          incl \in IncludeChoices : Start(v, u, incl)
    \/ \E order \in ListingOrders : CloneOk(order)
    \/ \E fault \in Faults(fs, {"readdir", "stat"}) : BuildCall(fault)
    \/ \E fault \in Faults(fs, {"readdir", "stat"}) : BuildResume(fault)
    \/ BuildReturn
    \/ RenderTree

SpecTree == Init /\ [][NextTree]_vars

---------------------------------------------------------------------------
(* getRepoNameFromUrl on its own: every URL of at most MaxUrlLen characters *)
(* over UrlChars is built, and the name is derived from it.                 *)

UrlChars == {SLASH, DOT, "g", "i", "t"}

InitUrl ==
    /\ pc = "url"
    /\ variant = "none"
    /\ url = <<>>
    /\ repoName = <<>>
    /\ includeExtensions = Undefined
    /\ repo = EmptyDir
    /\ fs = EmptyDir
    /\ listing = <<>>
    /\ tempExists = FALSE
    /\ walk = <<>>
    /\ fileTree = NoTree
    /\ rendered = <<>>
    /\ treeString = <<>>
    /\ mergedContent = NoContent
    /\ outputFile = Absent
    /\ writes = 0
    /\ progress = {}
    /\ thrown = FALSE

\* The caller's URL gets one more character.
UrlAppend(c) ==
    /\ pc = "url"
    /\ Len(url) < MaxUrlLen
    /\ url' = Append(url, c)
    /\ UNCHANGED <<pc, variant, repoName, includeExtensions, repo, fs,
                   listing, tempExists, walk, fileTree, rendered, treeString,
                   mergedContent, outputFile, writes, progress, thrown>>

\* const repoName = getRepoNameFromUrl(githubUrl)
UrlDerive ==
    /\ pc = "url"
    /\ pc' = "named"
    /\ repoName' = getRepoNameFromUrl(url)
    /\ UNCHANGED <<variant, url, includeExtensions, repo, fs, listing,
                   tempExists, walk, fileTree, rendered, treeString,
                   mergedContent, outputFile, writes, progress, thrown>>

NextUrl ==
    \/ \E c \in UrlChars : UrlAppend(c)
    \/ UrlDerive

SpecUrl == InitUrl /\ [][NextUrl]_vars

---------------------------------------------------------------------------
(* What the properties below speak of.                                      *)

\* The number of nodes of a tree.
RECURSIVE NodeCount(_)
RECURSIVE NodeCountFrom(_, _)
NodeCountFrom(children, i) ==
    IF i > Len(children) THEN 0
    ELSE NodeCount(children[i]) + NodeCountFrom(children, i + 1)

NodeCount(t) ==
    1 + (IF HasChildren(t) THEN NodeCountFrom(t.children, 1) ELSE 0)

\* The nodes of a tree in pre-order, each with its depth below the root
\* and its path below the root.
RECURSIVE Preorder(_, _, _)
RECURSIVE PreorderFrom(_, _, _, _)
PreorderFrom(children, i, depth, base) ==
    IF i > Len(children) THEN <<>>
    ELSE Preorder(children[i], depth, Append(base, children[i].name))
         \o PreorderFrom(children, i + 1, depth, base)

Preorder(t, depth, path) ==
    <<[name |-> t.name, type |-> t.type, depth |-> depth, path |-> path,
       nchildren |-> IF HasChildren(t) THEN Len(t.children) ELSE 0,
       childNames |-> IF HasChildren(t)
                      THEN [i \in 1..Len(t.children) |-> t.children[i].name]
                      ELSE <<>>]>>
    \o (IF HasChildren(t)
        THEN PreorderFrom(t.children, 1, depth + 1, path)
        ELSE <<>>)

\* The nodes of fileTree; the first is the root.
TreeNodes == Preorder(fileTree, 0, <<>>)

\* The paths of the nodes of fileTree below the root.
TreePaths == {TreeNodes[i].path : i \in 2..Len(TreeNodes)}

TreeBuilt == "tree" \in progress
Rendered == pc \in {"merge", "write", "finally", "done"} /\ TreeBuilt
Merged == "merge" \in progress

\* The number of line breaks in a string.
LineCount(s) == Cardinality({i \in 1..Len(s) : s[i] = NL})

\* The path has an ancestor directory whose name is in excludeDirs.
BeneathExcluded(p) ==
    \E i \in 1..(Len(p) - 1) : Includes(excludeDirs, p[i])

\* The path is, or lies beneath, a directory whose name is in excludeDirs.
ExcludedOnPath(p) ==
    \E i \in 1..Len(p) :
        /\ Includes(excludeDirs, p[i])
        /\ repo[SubSeq(p, 1, i)] = "directory"

RepoFiles == {p \in DOMAIN repo : repo[p] = "file"}
RepoDirs == {p \in DOMAIN repo : repo[p] = "directory"}

\* p is a proper prefix of q.
Above(p, q) == Len(p) < Len(q) /\ SubSeq(q, 1, Len(p)) = p

\* The file a section of mergedContent was read from (the text of each
\* file of the model names the file).
SectionFile(i) == mergedContent.sections[i].content[2]

\* The sections of mergedContent that hold the text of the file p.
SectionsOf(p) ==
    {i \in 1..Len(mergedContent.sections) : SectionFile(i) = p}

---------------------------------------------------------------------------
(* C1 *)

\* C1: once a run of mergeRepositoryFiles has finished, whichever step
\* failed or succeeded, the temporary clone directory does not exist.
C1_TempDirRemoved == pc = "done" => ~tempExists /\ fs = EmptyDir

---------------------------------------------------------------------------
(* C2 *)

\* C2: the output file is written at most once, only after the clone, the
\* tree build and the whole merge succeeded, and then with the complete
\* buffer; a run in which one of them failed leaves the output path as it
\* was.
C2_WrittenOnceAfterAll ==
    /\ writes <= 1
    /\ outputFile.state # "absent" => {"clone", "tree", "merge"} \subseteq progress
    /\ writes = 1 => /\ outputFile = [state |-> "written",
                                      content |-> mergedContent]
                     /\ {"clone", "tree", "merge"} \subseteq progress
    /\ thrown /\ "merge" \notin progress => outputFile = Absent /\ writes = 0

\* A run whose walk failed after a section had been appended to the buffer
\* and that finished.
C2_Witness ==
    /\ pc = "done"
    /\ thrown
    /\ "tree" \in progress
    /\ "merge" \notin progress
    /\ mergedContent.sections # <<>>

---------------------------------------------------------------------------
(* C7 *)

\* The lines of the renderer's output: the pieces before each line break.
RenderedLines == LET pieces == Split(rendered, NL)
                 IN  SubSeq(pieces, 1, Len(pieces) - 1)

\* The line breaks held by the names of the nodes from the i-th on.
RECURSIVE NameBreaksFrom(_, _)
NameBreaksFrom(nodes, i) ==
    IF i > Len(nodes) THEN 0
    ELSE LineCount(nodes[i].name) + NameBreaksFrom(nodes, i + 1)

\* The line breaks held by the names of the nodes of fileTree.
NameBreaks == NameBreaksFrom(TreeNodes, 1)

\* The output has a line for each node, in pre-order; the line of a node
\* at depth d is d times three characters of indentation (spaces and
\* continuation bars), a three-character marker, and the node's name.
LinePerNode ==
    /\ Len(RenderedLines) = NodeCount(fileTree)
    /\ Len(RenderedLines) = Len(TreeNodes)
    /\ \A i \in 1..Len(TreeNodes) :
          LET line == RenderedLines[i]
              node == TreeNodes[i]
              d == 3 * node.depth
          IN  /\ Len(line) = d + 3 + Len(node.name)
              /\ \A j \in 1..d : line[j] \in {" ", BarGlyph}
              /\ line[d + 1] \in {CornerGlyph, TeeGlyph}
              /\ line[d + 2] = DashGlyph
              /\ line[d + 3] = " "
              /\ SubSeq(line, d + 4, Len(line)) = node.name

\* C7 as stated: for any tree, generateTreeString gives exactly one line
\* per node, in pre-order, indented by three characters per level.
C7_OneLinePerNode ==
    Rendered => rendered # <<>> /\ rendered[Len(rendered)] = NL /\ LinePerNode

\* C7 as amended: the output ends with a line break and holds one line
\* break per node and one more for each line break in a name; for a tree
\* none of whose names holds a line break that is exactly one line per
\* node, in pre-order, indented by three characters per level.
C7_OneLinePerNodeWithoutLineBreaks ==
    Rendered =>
        /\ rendered # <<>> /\ rendered[Len(rendered)] = NL
        /\ LineCount(rendered) = NodeCount(fileTree) + NameBreaks
        /\ NameBreaks = 0 => LinePerNode

\* A rendered tree without line breaks in its names, with a node two
\* levels below the root whose line carries a continuation bar.
C7_Witness ==
    /\ Rendered
    /\ NameBreaks = 0
    /\ \E i \in 1..Len(TreeNodes) :
          /\ TreeNodes[i].depth = 2
          /\ BarGlyph \in Range(RenderedLines[i])

---------------------------------------------------------------------------
(* C10 *)

\* C10: the tree block of the output has one line for every node of the
\* built tree: the root line and one line for each descendant.
C10_TreeBlockHasEveryNode ==
    Rendered =>
        /\ LineCount(treeString) = NodeCount(fileTree)
        /\ \A i \in 2..Len(TreeNodes) :
              \E k \in 1..Len(Split(treeString, NL)) :
                  LET line == Split(treeString, NL)[k]
                      nm == TreeNodes[i].name
                  IN  /\ Len(line) >= Len(nm)
                      /\ SubSeq(line, Len(line) - Len(nm) + 1, Len(line)) = nm

---------------------------------------------------------------------------
(* C3 *)

\* The last name of a path.
Basename(p) == p[Len(p)]

\* The file meets the condition the claim names: its basename is not in
\* the excluded-file set and its extension is in the allow-list or, when
\* there is no allow-list, in the built-in list of text extensions.
ClaimedToAppear(p) ==
    /\ p \in RepoFiles
    /\ ~Includes(excludeFiles, Basename(p))
    /\ IF includeExtensions.defined
       THEN Includes(includeExtensions.list, extname(Basename(p)))
       ELSE Includes(textExtensions, extname(Basename(p)))

\* s ends with t.
EndsWith(s, t) ==
    Len(s) >= Len(t) /\ SubSeq(s, Len(s) - Len(t) + 1, Len(s)) = t

\* The file has exactly one section in the merged output, holding its
\* content under one header; the header ends with the file's path below
\* the repository, and is the repository name, a slash and that path when
\* the name holds no dollar sign.
AppearsOnce(p) ==
    /\ Cardinality(SectionsOf(p)) = 1
    /\ \A i \in SectionsOf(p) :
          LET header == mergedContent.sections[i].header
              relative == JoinWith(p, SLASH)
          IN  /\ mergedContent.sections[i].content = readFileSync(p)
              /\ EndsWith(header, <<SLASH>> \o relative)
              /\ "$" \notin Range(repoName) =>
                    header = repoName \o <<SLASH>> \o relative

\* C3 as stated: every file with an admitted basename and extension appears
\* exactly once in the merged output, wherever it lies in the repository.
C3_EveryAdmittedFileAppears ==
    Merged => \A p \in RepoFiles : ClaimedToAppear(p) => AppearsOnce(p)

\* C3 as amended: every such file that does not lie beneath an excluded
\* directory appears exactly once, with its content; what is written to
\* the output path is that buffer.
C3_AdmittedFileOutsideExcludedAppears ==
    /\ Merged =>
          \A p \in RepoFiles :
              ClaimedToAppear(p) /\ ~ExcludedOnPath(p) => AppearsOnce(p)
    /\ outputFile.state = "written" => outputFile.content = mergedContent

\* A merge of a repository with an admitted file inside a directory and a
\* file that is not admitted.
C3_Witness ==
    /\ Merged
    /\ \E p \in RepoFiles :
          Len(p) >= 2 /\ ClaimedToAppear(p) /\ ~ExcludedOnPath(p)
    /\ \E p \in RepoFiles : ~ClaimedToAppear(p) /\ SectionsOf(p) = {}

---------------------------------------------------------------------------
(* C4 *)

\* C4: nothing beneath a directory named in excludeDirs is a node of the
\* built tree or a section of the merged output, at any depth; and a
\* directory not named there is walked: its files that pass the variant's
\* file test are in the tree and in the output.
C4_ExcludedDirsAtEveryDepth ==
    /\ TreeBuilt =>
          /\ \A p \in TreePaths : p \in DOMAIN repo /\ ~ExcludedOnPath(p)
          /\ \A p \in RepoFiles :
                (/\ ~ExcludedOnPath(p)
                 /\ variant = "filtered" => extensionIncluded(Basename(p),
                                                              includeExtensions))
                => p \in TreePaths
    /\ Merged =>
          /\ \A i \in 1..Len(mergedContent.sections) :
                LET p == SectionFile(i)
                IN  p \in RepoFiles /\ ~ExcludedOnPath(p)
          /\ \A p \in RepoFiles :
                (/\ ~ExcludedOnPath(p)
                 /\ IF variant = "filtered"
                    THEN qualifies(Basename(p), excludeFiles,
                                   includeExtensions)
                    ELSE qualifiesUnfiltered(Basename(p), excludeFiles))
                => SectionsOf(p) # {}

\* A merge of a repository that holds an excluded directory below the top
\* level with a file in it, the file being one the file test admits.
C4_Witness ==
    /\ Merged
    /\ \E p \in RepoFiles :
          /\ Len(p) = 3
          /\ Includes(excludeDirs, p[2])
          /\ ~Includes(excludeDirs, p[1])
          /\ extensionIncluded(Basename(p), includeExtensions)
          /\ p \notin TreePaths
          /\ SectionsOf(p) = {}

---------------------------------------------------------------------------
(* C5 *)

\* The names of the modelled repository in ascending locale order.
NameOrder == << <<".", "e", "n", "v">>,
                <<"a", "-", "1", ".", "l", "o", "g">>,
                <<"a", ".", "m", "d">>, <<"b">>, <<"B", ".", "M", "D">>,
                <<"d", "i", "s", "t">>, <<"D", "i", "s", "t">>,
                <<"z", "\n", "z">> >>

Rank(nm) == CHOOSE i \in 1..Len(NameOrder) : NameOrder[i] = nm

\* C5: in every directory node of the built tree the directory children
\* come before the file children, and the names ascend within each group.
C5_DirectoriesFirstThenByName ==
    TreeBuilt =>
        \A n \in 1..Len(TreeNodes) :
            LET names == TreeNodes[n].childNames
                base == TreeNodes[n].path
            IN  \A i, j \in 1..Len(names) :
                    i < j =>
                        LET ti == repo[Append(base, names[i])]
                            tj == repo[Append(base, names[j])]
                        IN  /\ ~(ti = "file" /\ tj = "directory")
                            /\ ti = tj => Rank(names[i]) < Rank(names[j])

\* A tree whose root holds two directories and a file that the file
\* system listed in another order (Dist, a.md, b): b, Dist, a.md.
C5_Witness ==
    /\ TreeBuilt
    /\ TreeNodes[1].childNames = << <<"b">>, <<"D", "i", "s", "t">>,
                                    <<"a", ".", "m", "d">> >>
    /\ readdirSync(<<>>) = << <<"D", "i", "s", "t">>,
                              <<"a", ".", "m", "d">>, <<"b">> >>
    /\ pc = "render"

---------------------------------------------------------------------------
(* C6 *)

\* The file passes the extension filter of the filtered variant.
PassesFilter(nm) ==
    \/ ~includeExtensions.defined
    \/ \E i \in 1..Len(includeExtensions.list) :
          toLowerCase(includeExtensions.list[i]) = toLowerCase(extname(nm))

\* The directory holds, outside excluded directories, a file that passes.
HoldsPassingFile(d) ==
    \E p \in RepoFiles :
        Above(d, p) /\ ~ExcludedOnPath(p) /\ PassesFilter(Basename(p))

\* C6 as stated: every directory node of the filtered tree has a child.
C6_EveryDirectoryHasChild ==
    TreeBuilt /\ variant = "filtered" =>
        \A n \in 1..Len(TreeNodes) :
            TreeNodes[n].type = "directory" => TreeNodes[n].nchildren >= 1

\* C6 as amended: in the filtered tree every directory node but the root
\* has a child, every node without children but the root is a file that
\* passes the extension filter, and a directory that holds no passing file
\* outside excluded directories is not in the tree.
C6_EveryDirectoryBelowRootHasChild ==
    TreeBuilt /\ variant = "filtered" =>
        /\ \A n \in 2..Len(TreeNodes) :
              /\ TreeNodes[n].type = "directory" => TreeNodes[n].nchildren >= 1
              /\ TreeNodes[n].nchildren = 0 =>
                    /\ TreeNodes[n].type = "file"
                    /\ repo[TreeNodes[n].path] = "file"
                    /\ PassesFilter(TreeNodes[n].name)
        /\ \A d \in RepoDirs : ~HoldsPassingFile(d) => d \notin TreePaths
        /\ \A d \in RepoDirs :
              HoldsPassingFile(d) /\ ~ExcludedOnPath(d) => d \in TreePaths

\* A filtered tree built from a repository in which a directory is pruned
\* because its only content is a directory that is pruned itself.
C6_Witness ==
    /\ TreeBuilt /\ variant = "filtered" /\ includeExtensions.defined
    /\ \E d, e \in RepoDirs :
          /\ Above(d, e)
          /\ ~ExcludedOnPath(e)
          /\ \E p \in RepoFiles : Above(e, p)
          /\ d \notin TreePaths

---------------------------------------------------------------------------
(* C8 *)

\* The files of the built tree, in the order of their leaves.
TreeFileOrder ==
    LET files == SelectSeq(TreeNodes, LAMBDA n : n.type = "file")
    IN  [i \in 1..Len(files) |-> files[i].path]

\* The files of the merged output, in the order of their sections.
SectionOrder ==
    [i \in 1..Len(mergedContent.sections) |-> SectionFile(i)]

\* C8: the sections of the merged output follow one another in the order
\* in which their files' leaves follow one another in the built tree.
C8_SectionsInTreeOrder ==
    Merged =>
        SectionOrder =
            SelectSeq(TreeFileOrder, LAMBDA p : p \in Range(SectionOrder))

---------------------------------------------------------------------------
(* C9 *)

HasSlash(u) == \E i \in 1..Len(u) : u[i] = SLASH

\* The characters after the last slash.
FinalSegment(u) ==
    LET last == CHOOSE i \in 1..Len(u) :
                    u[i] = SLASH /\ \A j \in (i + 1)..Len(u) : u[j] # SLASH
    IN  SubSeq(u, last + 1, Len(u))

EndsWithDotGit(seg) ==
    Len(seg) >= 4 /\ SubSeq(seg, Len(seg) - 3, Len(seg)) = DotGit

\* The segment without a trailing ".git".
StripDotGit(seg) ==
    IF EndsWithDotGit(seg) THEN SubSeq(seg, 1, Len(seg) - 4) ELSE seg

\* https://github.com/user/repo.git and git@github.com:user/repo
HttpsExample ==
    <<"h", "t", "t", "p", "s", ":", "/", "/", "g", "i", "t", "h", "u", "b",
      ".", "c", "o", "m", "/", "u", "s", "e", "r", "/", "r", "e", "p", "o",
      ".", "g", "i", "t">>
SshExample ==
    <<"g", "i", "t", "@", "g", "i", "t", "h", "u", "b", ".", "c", "o", "m",
      ":", "u", "s", "e", "r", "/", "r", "e", "p", "o">>
Repo == <<"r", "e", "p", "o">>

\* C9 as stated: the final segment without a trailing ".git" for a URL
\* with a slash, "repository" for a URL without one.
C9_FinalSegmentWithoutDotGit ==
    pc = "named" =>
        repoName = IF HasSlash(url) THEN StripDotGit(FinalSegment(url))
                                    ELSE Repository

\* C9 as amended: "repository" for a URL without a slash or ending in one;
\* a final segment that is exactly ".git" whole; otherwise the final
\* segment without a trailing ".git".  Both example URLs give repo.
C9_FinalSegmentOrFallback ==
    /\ getRepoNameFromUrl(HttpsExample) = Repo
    /\ getRepoNameFromUrl(SshExample) = Repo
    /\ pc = "named" =>
          repoName = IF ~HasSlash(url) THEN Repository
                     ELSE IF FinalSegment(url) = <<>> THEN Repository
                     ELSE IF FinalSegment(url) = DotGit THEN DotGit
                     ELSE StripDotGit(FinalSegment(url))

\* A name derived from a URL whose final segment ends in ".git".
C9_Witness ==
    /\ pc = "named"
    /\ HasSlash(url)
    /\ EndsWithDotGit(FinalSegment(url))
    /\ Len(FinalSegment(url)) > 4
    /\ repoName = SubSeq(FinalSegment(url), 1, Len(FinalSegment(url)) - 4)

=============================================================================
